---- MODULE Spec2Model ----
(***************************************************************************)
(* KZG10 polynomial commitment with optional hiding (src/kzg_hiding.py).   *)
(*                                                                         *)
(* Group elements of DummyGroup(Field) are field elements: the group law   *)
(* is field addition, scalar multiplication is field multiplication and    *)
(* the pairing of a and b is the field product a*b.  The field is the      *)
(* integers modulo the prime held in the variable modulus.                 *)
(* A polynomial is the sequence of its coefficients, lowest power first:   *)
(* coeffs[i] is the coefficient of x^(i-1).                                *)
(***************************************************************************)
EXTENDS Integers, Sequences, FiniteSets, TLC

VARIABLES
    modulus,        \* the prime of Field
    max_degree,     \* KZG10Commitment.max_degree
    hiding_bound,   \* KZG10Commitment.hiding_bound (NoHiding for None)
    params,         \* KZG10Commitment.params, the SRS
    secret,         \* the values setup drew: [g, h, s, gamma_g]
    pc,             \* position of the running operation
    polynomial,     \* coefficients of the polynomial given to commit / open
    random_ints,    \* commit's random_ints
    commitment,     \* value of the Commitment commit returned
    proof,          \* the proof open returned: [w, random_v]
    call,           \* arguments and result of the last verifier / pure call
    batch           \* the claims collected for batch_check

vars == <<modulus, max_degree, hiding_bound, params, secret, pc, polynomial,
          random_ints, commitment, proof, call, batch>>

----------------------------------------------------------------------------
(* Bounds of the model *)

MaxDegree == 2

MaxHidingBound == 1

MaxCoeffs == 3

MaxMsmLen == 2

MaxScalar == 16

MaxBatch == 2

MaxRandomizer == 3

----------------------------------------------------------------------------
(* Field: integers modulo the prime modulus *)

ToyModulus == 17

SmallModulus == 3

NoHiding == -1

NoValue == -1

Elements == 0 .. (modulus - 1)

Add(a, b) == (a + b) % modulus

Sub(a, b) == (a - b) % modulus

Mul(a, b) == (a * b) % modulus

RECURSIVE Pow(_, _)
Pow(a, n) == IF n = 0 THEN 1 % modulus ELSE Mul(a, Pow(a, n - 1))

\* DummyGroup.pairing over the additive group of the field
pairing(a, b) == Mul(a, b)

\* DummyGroup.exp as Commitment.__add__ uses it
exp(base, exponent) == Mul(base, exponent)

----------------------------------------------------------------------------
(* UniPolynomial *)

\* All sequences over S of length lo..hi
SeqsOf(S, lo, hi) == UNION {[1 .. n -> S] : n \in lo .. hi}

\* degree: highest index with a nonzero coefficient, 0 for the zero polynomial
RECURSIVE Degree(_)
Degree(coeffs) ==
    IF Len(coeffs) = 0 THEN 0
    ELSE IF coeffs[Len(coeffs)] % modulus # 0 THEN Len(coeffs) - 1
    ELSE Degree(SubSeq(coeffs, 1, Len(coeffs) - 1))

\* UniPolynomial.evaluate, by Horner's rule from the highest coefficient
RECURSIVE evaluate(_, _)
evaluate(coeffs, x) ==
    IF Len(coeffs) = 0 THEN 0
    ELSE Add(coeffs[1], Mul(x, evaluate(Tail(coeffs), x)))

\* coefficient-wise sum of two polynomials, trimmed to its degree
PolyAdd(p, q) ==
    LET n == IF Len(p) > Len(q) THEN Len(p) ELSE Len(q)
        c(r, i) == IF i <= Len(r) THEN r[i] ELSE 0
        raw == [i \in 1 .. n |-> Add(c(p, i), c(q, i))]
    IN  IF n = 0 THEN raw ELSE SubSeq(raw, 1, Degree(raw) + 1)

\* the polynomials a caller can hold: a constant, or a nonzero leading coefficient
Polynomials(maxlen) ==
    {c \in SeqsOf(Elements, 1, maxlen) : Len(c) = 1 \/ c[Len(c)] # 0}

----------------------------------------------------------------------------
(* Polynomial utilities *)

NoPrecondition == [ok |-> FALSE, quotient |-> <<>>, remainder |-> 0]

\* the loop of division_by_linear_divisor after i iterations over reversed(coeffs)
RECURSIVE DivisionLoop(_, _, _)
DivisionLoop(coeffs, d, i) ==
    LET n == Len(coeffs) IN
    IF i = 0
    THEN [quotient |-> [k \in 1 .. (n - 1) |-> 0], remainder |-> coeffs[n]]
    ELSE LET prev == DivisionLoop(coeffs, d, i - 1) IN
         [quotient  |-> [prev.quotient EXCEPT ![n - i] = prev.remainder],
          remainder |-> Add(Mul(prev.remainder, d), coeffs[n - i])]

\* as division_by_linear_divisor, with the remainder left out of the last step
division_by_linear_divisor_dropped_term(coeffs, d) ==
    IF ~(Len(coeffs) > 1) THEN NoPrecondition
    ELSE LET r == DivisionLoop(coeffs, d, Len(coeffs) - 2) IN
         [ok |-> TRUE,
          quotient |-> [r.quotient EXCEPT ![1] = r.remainder],
          remainder |-> Mul(r.remainder, d)]

division_by_linear_divisor(coeffs, d) ==
    IF ~(Len(coeffs) > 1) THEN NoPrecondition
    ELSE LET r == DivisionLoop(coeffs, d, Len(coeffs) - 1) IN
         [ok |-> TRUE, quotient |-> r.quotient, remainder |-> r.remainder]

RECURSIVE CountLeadingZeros(_, _)
CountLeadingZeros(coeffs, n) ==
    IF n < Len(coeffs) /\ coeffs[n + 1] = 0
    THEN CountLeadingZeros(coeffs, n + 1)
    ELSE n

skip_leading_zeros_and_convert_to_bigints(coeffs) ==
    LET num_leading_zeros == CountLeadingZeros(coeffs, 0) IN
    [num_leading_zeros |-> num_leading_zeros,
     coeffs |-> SubSeq(coeffs, num_leading_zeros + 1, Len(coeffs))]

----------------------------------------------------------------------------
(* MSM subsystem *)

negation_is_cheap == FALSE

WINDOW_SIZE == 5

RECURSIVE TwoTo(_)
TwoTo(n) == IF n = 0 THEN 1 ELSE 2 * TwoTo(n - 1)

\* the number of binary digits of n
RECURSIVE next_power_of_two(_)
next_power_of_two(n) == IF n > 0 THEN 1 + next_power_of_two(n \div 2) ELSE 0

RECURSIVE msm_bigint_basic(_, _)
msm_bigint_basic(bases, bigints) ==
    IF Len(bases) = 0 \/ Len(bigints) = 0 THEN 0
    ELSE LET n == IF Len(bases) < Len(bigints) THEN Len(bases) ELSE Len(bigints) IN
         Add(msm_bigint_basic(SubSeq(bases, 1, n - 1), SubSeq(bigints, 1, n - 1)),
             Mul(bases[n], bigints[n]))

\* precomp[j][i] = base * i
Precomp(base, i) == Mul(base, i)

\* (scalar >> i) & ((1 << WINDOW_SIZE) - 1)
Window(scalar, i) == (scalar \div TwoTo(i)) % TwoTo(WINDOW_SIZE)

\* the term the inner loop adds to result for base j at bit position i
WnafTerm(base, scalar, i) ==
    LET window == Window(scalar, i)
        half == TwoTo(WINDOW_SIZE - 1) IN
    IF ~(next_power_of_two(scalar) > i) \/ window = 0 THEN 0
    ELSE IF window >= half THEN Sub(0, Precomp(base, window - half))
    ELSE Precomp(base, window - 1)

\* the inner loop over zip(bases, bigints), from pair j on
RECURSIVE WnafInner(_, _, _, _, _)
WnafInner(bases, bigints, i, j, result) ==
    IF j > Len(bases) \/ j > Len(bigints) THEN result
    ELSE WnafInner(bases, bigints, i, j + 1,
                   Add(result, WnafTerm(bases[j], bigints[j], i)))

\* the outer loop, from bit position i up to bits - 1
RECURSIVE WnafOuter(_, _, _, _, _)
WnafOuter(bases, bigints, i, bits, result) ==
    IF i >= bits THEN result
    ELSE WnafOuter(bases, bigints, i + 1, bits,
                   WnafInner(bases, bigints, i, 1, Add(result, result)))

RECURSIVE MaxBits(_)
MaxBits(bigints) ==
    IF Len(bigints) = 1 THEN next_power_of_two(bigints[1])
    ELSE LET rest == MaxBits(Tail(bigints))
             first == next_power_of_two(bigints[1]) IN
         IF first > rest THEN first ELSE rest

\* max() of an empty sequence raises ValueError
msm_bigint_wnaf(bases, bigints) ==
    IF Len(bigints) = 0 THEN [raised |-> TRUE, value |-> 0]
    ELSE [raised |-> FALSE,
          value  |-> WnafOuter(bases, bigints, 0, MaxBits(bigints), 0)]

msm_bigint(cheap, bases, bigints) ==
    IF cheap THEN msm_bigint_wnaf(bases, bigints)
    ELSE [raised |-> FALSE, value |-> msm_bigint_basic(bases, bigints)]


----------------------------------------------------------------------------
(* Values of the variables an operation does not use *)

NoParams == [powers_of_g |-> <<>>, powers_of_gamma_g |-> <<>>, h |-> 0,
             beta_h |-> 0, neg_powers_of_h |-> <<>>]

NoSecret == [g |-> 0, h |-> 0, s |-> 0, gamma_g |-> 0]

NoProof == [w |-> 0, random_v |-> NoValue]

NoCall == [op |-> "none"]

NoScheme ==
    /\ max_degree = 0
    /\ hiding_bound = NoHiding
    /\ params = NoParams
    /\ secret = NoSecret
    /\ polynomial = <<>>
    /\ random_ints = <<>>
    /\ commitment = NoValue
    /\ proof = NoProof
    /\ batch = <<>>

Min(a, b) == IF a < b THEN a ELSE b

----------------------------------------------------------------------------
(* Synthetic division as a pure function: SpecDivision *)

MaxCoefficient == 3

InitDivision ==
    /\ modulus \in {SmallModulus, ToyModulus}
    /\ NoScheme
    /\ pc = "division_called"
    /\ \E coeffs \in SeqsOf(0 .. Min(MaxCoefficient, modulus - 1), 1, MaxCoeffs),
          d \in Elements :
          call = [op |-> "division_by_linear_divisor", coeffs |-> coeffs, d |-> d]

Divide ==
    /\ pc = "division_called"
    /\ LET r == division_by_linear_divisor(call.coeffs, call.d) IN
       /\ call' = [op |-> call.op, coeffs |-> call.coeffs, d |-> call.d,
                   quotient |-> r.quotient, remainder |-> r.remainder]
       /\ pc' = IF r.ok THEN "division_returned" ELSE "division_asserted"
    /\ UNCHANGED <<modulus, max_degree, hiding_bound, params, secret, polynomial,
                   random_ints, commitment, proof, batch>>

NextDivision == Divide

SpecDivision == InitDivision /\ [][NextDivision]_vars

\* coefficient k (of x^(k-1)) of quotient(x)*(x - d) + remainder
Reconstructed(quotient, d, remainder, k) ==
    LET shifted == IF k >= 2 THEN quotient[k - 1] ELSE 0
        scaled  == IF k <= Len(quotient) THEN Mul(d, quotient[k]) ELSE 0
        const   == IF k = 1 THEN remainder ELSE 0
    IN  Add(Sub(shifted, scaled), const)

\* C6: for every coefficient list of at least 2 coefficients and every d,
\* division_by_linear_divisor returns a quotient one shorter than the input with
\* quotient(x)*(x - d) + remainder equal to p(x) coefficient by coefficient and
\* remainder equal to p evaluated at d; a shorter list fails the assertion.
DivisionIdentity ==
    pc \in {"division_returned", "division_asserted"} =>
        IF Len(call.coeffs) >= 2
        THEN /\ pc = "division_returned"
             /\ Len(call.quotient) = Len(call.coeffs) - 1
             /\ \A k \in 1 .. Len(call.coeffs) :
                    Reconstructed(call.quotient, call.d, call.remainder, k)
                        = call.coeffs[k]
             /\ call.remainder = evaluate(call.coeffs, call.d)
        ELSE pc = "division_asserted"

\* C6 witness: over the integers mod 17, [1, 2, 3] divided by (x - 5) gave
\* quotient [0, 3] and remainder 1
DivisionToyExample ==
    /\ pc = "division_returned"
    /\ modulus = ToyModulus
    /\ call.coeffs = <<1, 2, 3>>
    /\ call.d = 5
    /\ call.quotient = <<0, 3>>
    /\ call.remainder = 1

----------------------------------------------------------------------------
(* The two MSM algorithms as pure functions: SpecMsm *)

InitMsm ==
    /\ modulus = SmallModulus
    /\ NoScheme
    /\ pc = "msm_called"
    /\ \E n \in 0 .. MaxMsmLen :
       \E bases \in [1 .. n -> Elements], bigints \in [1 .. n -> 0 .. MaxScalar] :
          call = [op |-> "msm", bases |-> bases, bigints |-> bigints]

Msm ==
    /\ pc = "msm_called"
    /\ call' = [op |-> call.op, bases |-> call.bases, bigints |-> call.bigints,
                basic |-> msm_bigint(FALSE, call.bases, call.bigints),
                wnaf  |-> msm_bigint(TRUE, call.bases, call.bigints)]
    /\ pc' = "msm_returned"
    /\ UNCHANGED <<modulus, max_degree, hiding_bound, params, secret, polynomial,
                   random_ints, commitment, proof, batch>>

NextMsm == Msm

SpecMsm == InitMsm /\ [][NextMsm]_vars

\* C5: for every vector of bases and equal-length vector of non-negative
\* scalars, msm_bigint_wnaf returns the group element msm_bigint_basic
\* returns, so msm_bigint does not depend on negation_is_cheap.
MsmAgreement ==
    pc = "msm_returned" =>
        /\ ~call.wnaf.raised
        /\ call.wnaf.value = call.basic.value


----------------------------------------------------------------------------
(* KZG10Commitment *)

MaxPoint == 2

Points == 0 .. MaxPoint

HidingBounds == {NoHiding} \cup (0 .. MaxHidingBound)

\* powers_of_g[i] (1-based) is g * s^(i-1)
setup(g, h, s, gamma_g, maxdeg) ==
    LET powers_of_s == [i \in 1 .. (maxdeg + 2) |-> Pow(s, i - 1)] IN
    [powers_of_g       |-> [i \in 1 .. (maxdeg + 1) |-> Mul(g, powers_of_s[i])],
     powers_of_gamma_g |-> [i \in 1 .. (maxdeg + 2) |-> Mul(gamma_g, powers_of_s[i])],
     h                 |-> h,
     beta_h            |-> Mul(s, h),
     neg_powers_of_h   |-> <<>>]

\* as CommitmentAdd, with the second exponent of Commitment.__sub__
CommitmentAddNegated(a, b) == Add(exp(a, 1), exp(b, -1))

\* Commitment.__add__ on the values of two commitments of one group
CommitmentAdd(a, b) == Add(exp(a, 1), exp(b, 1))

\* the commitment commit computes before hiding
PlainCommitment(srs, coeffs) ==
    LET t == skip_leading_zeros_and_convert_to_bigints(coeffs) IN
    msm_bigint(negation_is_cheap,
               SubSeq(srs.powers_of_g, t.num_leading_zeros + 1, Len(srs.powers_of_g)),
               t.coeffs).value

\* the blinding term commit adds when hiding is enabled
HidingCommitment(srs, ints) ==
    msm_bigint(negation_is_cheap, srs.powers_of_gamma_g, ints).value

\* the first assertion of commit with the comparison off by one
TooManyCoefficientsStrict(srs, coeffs) ==
    ~(Degree(coeffs) + 1 < Len(srs.powers_of_g))

\* commit's first assertion
TooManyCoefficients(srs, coeffs) ==
    ~(Degree(coeffs) + 1 <= Len(srs.powers_of_g))

\* commit, up to the entry of the blinding loop
CommitCall(coeffs) ==
    /\ pc = "idle"
    /\ polynomial' = coeffs
    /\ call' = [op |-> "commit"]
    /\ IF TooManyCoefficients(params, coeffs)
       THEN /\ pc' = "commit_too_many_coefficients"
            /\ UNCHANGED <<random_ints, commitment>>
       ELSE /\ commitment' = PlainCommitment(params, coeffs)
            /\ random_ints' = <<>>
            /\ pc' = IF hiding_bound # NoHiding THEN "commit_sampling"
                     ELSE "commit_returned"
    /\ UNCHANGED <<modulus, max_degree, hiding_bound, params, secret, proof, batch>>

\* as SampleAgain, leaving the loop after the first draw whatever its degree
SampleOnce(ints) == Len(ints) = 0

\* the condition of commit's while loop
SampleAgain(ints) == Degree(ints) = 0

\* one iteration of the loop: draw hiding_bound + 1 random elements
CommitSample ==
    /\ pc = "commit_sampling"
    /\ SampleAgain(random_ints)
    /\ random_ints' \in [1 .. (hiding_bound + 1) -> Elements]
    /\ UNCHANGED <<modulus, max_degree, hiding_bound, params, secret, pc,
                   polynomial, commitment, proof, call, batch>>

\* commit after the loop: the hiding-bound assertions, the blinding, the return
CommitFinish ==
    /\ pc = "commit_sampling"
    /\ ~SampleAgain(random_ints)
    /\ LET hiding_poly_degree == Len(random_ints) - 1
           num_powers == Len(params.powers_of_gamma_g) IN
       IF ~(hiding_bound # 0)
       THEN /\ pc' = "commit_hiding_bound_is_zero"
            /\ UNCHANGED commitment
       ELSE IF ~(hiding_poly_degree < num_powers)
       THEN /\ pc' = "commit_hiding_bound_too_large"
            /\ UNCHANGED commitment
       ELSE /\ commitment' = Add(commitment, HidingCommitment(params, random_ints))
            /\ pc' = "commit_returned"
    /\ UNCHANGED <<modulus, max_degree, hiding_bound, params, secret, polynomial,
                   random_ints, proof, call, batch>>

NoWitness == [ok |-> FALSE, witness |-> <<>>, hiding |-> <<>>]

\* compute_witness_polynomial: the quotients of the polynomial and of the
\* blinding polynomial by (x - point)
compute_witness_polynomial(hb, coeffs, point, ints) ==
    LET wp == division_by_linear_divisor(coeffs, point)
        rp == division_by_linear_divisor(ints, point) IN
    IF ~wp.ok THEN NoWitness
    ELSE IF hb = NoHiding THEN [ok |-> TRUE, witness |-> wp.quotient, hiding |-> <<>>]
    ELSE IF ~rp.ok THEN NoWitness
    ELSE [ok |-> TRUE, witness |-> wp.quotient, hiding |-> rp.quotient]

\* open_with_witness_polynomial, given that its assertion holds
open_with_witness_polynomial(srs, hb, point, ints, witness, hiding) ==
    LET t == skip_leading_zeros_and_convert_to_bigints(witness)
        w == msm_bigint(negation_is_cheap,
                        SubSeq(srs.powers_of_g, t.num_leading_zeros + 1,
                               Len(srs.powers_of_g)),
                        t.coeffs).value IN
    IF hb = NoHiding THEN [w |-> w, random_v |-> NoValue]
    ELSE [w |-> Add(w, msm_bigint(negation_is_cheap, srs.powers_of_gamma_g,
                                  hiding).value),
          random_v |-> evaluate(ints, point)]

\* open: [ok, proof]; ok is FALSE when an assertion fails
open(srs, hb, coeffs, point, ints) ==
    IF ~(Degree(coeffs) + 1 < Len(srs.powers_of_g))
    THEN [ok |-> FALSE, why |-> "open_too_many_coefficients", proof |-> NoProof]
    ELSE LET wit == compute_witness_polynomial(hb, coeffs, point, ints) IN
         IF ~wit.ok
         THEN [ok |-> FALSE, why |-> "open_degree_zero", proof |-> NoProof]
         ELSE IF ~(Degree(wit.witness) + 1 < Len(srs.powers_of_g))
         THEN [ok |-> FALSE, why |-> "open_too_many_coefficients", proof |-> NoProof]
         ELSE [ok |-> TRUE, why |-> "open_returned",
               proof |-> open_with_witness_polynomial(srs, hb, point, ints,
                                                      wit.witness, wit.hiding)]

\* as check, with the point added to beta_h instead of subtracted
check_added_point(srs, hb, comm, point, value, prf) ==
    LET inner0 == Sub(comm, Mul(srs.powers_of_g[1], value))
        inner == IF hb # NoHiding
                 THEN Sub(inner0, Mul(srs.powers_of_gamma_g[1], prf.random_v))
                 ELSE inner0
    IN  pairing(inner, srs.h) = pairing(prf.w, Add(srs.beta_h, Mul(srs.h, point)))

\* check: the pairing equation
check(srs, hb, comm, point, value, prf) ==
    LET inner0 == Sub(comm, Mul(srs.powers_of_g[1], value))
        inner == IF hb # NoHiding
                 THEN Sub(inner0, Mul(srs.powers_of_gamma_g[1], prf.random_v))
                 ELSE inner0
        lhs == pairing(inner, srs.h)
        rhs == pairing(prf.w, Sub(srs.beta_h, Mul(srs.h, point)))
    IN  lhs = rhs

Commit ==
    /\ pc = "idle"
    /\ \E coeffs \in Polynomials(max_degree + 2) : CommitCall(coeffs)

\* open(polynomial, point, random_ints) on the polynomial just committed
OpenAt(point) ==
    /\ pc = "commit_returned"
    /\ LET r == open(params, hiding_bound, polynomial, point, random_ints) IN
       /\ proof' = r.proof
       /\ pc' = r.why
    /\ call' = [op |-> "open", point |-> point]
    /\ UNCHANGED <<modulus, max_degree, hiding_bound, params, secret, polynomial,
                   random_ints, commitment, batch>>

Open ==
    /\ pc = "commit_returned"
    /\ \E point \in Points : OpenAt(point)

\* check(commitment, point, polynomial.evaluate(point), proof) on the proof just opened
CheckAt(point) ==
    /\ pc = "open_returned"
    /\ LET value == evaluate(polynomial, point) IN
       call' = [op |-> "check", opened_at |-> call.point, point |-> point,
                value |-> value,
                result |-> check(params, hiding_bound, commitment, point, value, proof)]
    /\ pc' = "check_returned"
    /\ UNCHANGED <<modulus, max_degree, hiding_bound, params, secret, polynomial,
                   random_ints, commitment, proof, batch>>

Check ==
    /\ pc = "open_returned"
    /\ \E point \in Points : CheckAt(point)

\* KZG10Commitment(G1, G2, max_degree, hiding_bound): __init__ runs setup
Construct(hiding_bounds) ==
    /\ modulus = SmallModulus
    /\ max_degree = MaxDegree
    /\ hiding_bound \in hiding_bounds
    /\ \E g, h, s, gamma_g \in Elements :
          /\ secret = [g |-> g, h |-> h, s |-> s, gamma_g |-> gamma_g]
          /\ params = setup(g, h, s, gamma_g, max_degree)

Init ==
    /\ Construct(HidingBounds)
    /\ pc = "idle"
    /\ polynomial = <<>>
    /\ random_ints = <<>>
    /\ commitment = NoValue
    /\ proof = NoProof
    /\ call = NoCall
    /\ batch = <<>>

Next ==
    \/ Commit
    \/ CommitSample
    \/ CommitFinish
    \/ Open
    \/ Check

Spec == Init /\ [][Next]_vars

\* the interpreter keeps running a call that can take a step
FairSpec ==
    /\ Spec
    /\ WF_vars(Commit)
    /\ WF_vars(CommitSample)
    /\ WF_vars(CommitFinish)


----------------------------------------------------------------------------
(* Properties of commit, open and check *)

OpenAsserted == pc \in {"open_too_many_coefficients", "open_degree_zero"}

\* C1: for every polynomial of degree <= max_degree and every point, commit and
\* open complete without an assertion failure and check of the evaluation at
\* the opened point, with the proof opened there, returns true.
Completeness ==
    /\ OpenAsserted => ~(Degree(polynomial) <= max_degree)
    /\ (pc = "check_returned" /\ call.point = call.opened_at) => call.result

\* C1, the part that holds: when open returns, check at the opened point accepts
CompletenessWhenOpened ==
    (pc = "check_returned" /\ call.point = call.opened_at) => call.result

\* a polynomial of degree max_degree was committed and open asserted on it
OpenRejectsMaxDegree ==
    /\ pc = "open_too_many_coefficients"
    /\ Degree(polynomial) = max_degree

\* the SRS has g, h and gamma_g different from zero
NonDegenerate == secret.g # 0 /\ secret.h # 0 /\ secret.gamma_g # 0

WrongPointDefect(z, opened_at) ==
    LET q   == division_by_linear_divisor(polynomial, opened_at).quotient
        q_r == IF hiding_bound = NoHiding THEN <<>>
               ELSE division_by_linear_divisor(random_ints, opened_at).quotient
    IN  Add(Mul(secret.g, Sub(evaluate(q, secret.s), evaluate(q, z))),
            Mul(secret.gamma_g, evaluate(q_r, secret.s)))

HidingNonDegenerate ==
    pc = "commit_returned" =>
        IF hiding_bound = NoHiding THEN random_ints = <<>>
        ELSE /\ hiding_bound > 0
             /\ Len(random_ints) = hiding_bound + 1
             /\ \E i \in 2 .. Len(random_ints) : random_ints[i] # 0

\* C7 witness: commit returned a blinding polynomial whose constant term is zero
HidingReturned ==
    /\ pc = "commit_returned"
    /\ hiding_bound > 0
    /\ random_ints[1] = 0
    /\ random_ints[hiding_bound + 1] # 0

\* C9: on a scheme with hiding_bound = 0, a call to commit that entered the
\* blinding loop ends with the 'Hiding bound is zero' assertion failure.
ZeroHidingBoundSurfaces ==
    (hiding_bound = 0 /\ pc = "commit_sampling")
        ~> (pc = "commit_hiding_bound_is_zero")

\* C10: commit aborts with 'Too many coefficients' exactly when
\* degree + 1 > len(powers_of_g) = max_degree + 1, and then no commitment was
\* computed, no randomness drawn and the SRS is the one setup returned.
OversizedIsFatal ==
    /\ Len(params.powers_of_g) = max_degree + 1
    /\ params = setup(secret.g, secret.h, secret.s, secret.gamma_g, max_degree)
    /\ pc # "idle" =>
          (pc = "commit_too_many_coefficients"
              <=> Degree(polynomial) + 1 > Len(params.powers_of_g))
    /\ pc = "commit_too_many_coefficients" =>
          /\ commitment = NoValue
          /\ random_ints = <<>>
          /\ proof = NoProof

\* C10 witness: commit aborted on a polynomial of degree max_degree + 1
OversizedAborted ==
    /\ pc = "commit_too_many_coefficients"
    /\ Degree(polynomial) = max_degree + 1

\* C10 witness of the other direction: a polynomial of degree max_degree passed
MaxDegreeCommitted ==
    /\ pc = "commit_returned"
    /\ Degree(polynomial) = max_degree


----------------------------------------------------------------------------
(* Adding two commitments: SpecHomomorphism *)

InitHomomorphism ==
    /\ Construct({NoHiding})
    /\ pc = "add_called"
    /\ polynomial = <<>>
    /\ random_ints = <<>>
    /\ commitment = NoValue
    /\ proof = NoProof
    /\ batch = <<>>
    /\ \E p \in Polynomials(max_degree + 1), q \in Polynomials(max_degree + 1) :
          call = [op |-> "add", p |-> p, q |-> q]

\* commit(p).commitment + commit(q).commitment next to commit(p + q).commitment
AddCommitments ==
    /\ pc = "add_called"
    /\ hiding_bound = NoHiding
    /\ ~TooManyCoefficients(params, call.p)
    /\ ~TooManyCoefficients(params, call.q)
    /\ ~TooManyCoefficients(params, PolyAdd(call.p, call.q))
    /\ call' = [op |-> call.op, p |-> call.p, q |-> call.q,
                commit_p   |-> PlainCommitment(params, call.p),
                commit_q   |-> PlainCommitment(params, call.q),
                sum        |-> CommitmentAdd(PlainCommitment(params, call.p),
                                             PlainCommitment(params, call.q)),
                commit_sum |-> PlainCommitment(params, PolyAdd(call.p, call.q))]
    /\ pc' = "add_returned"
    /\ UNCHANGED <<modulus, max_degree, hiding_bound, params, secret, polynomial,
                   random_ints, commitment, proof, batch>>

NextHomomorphism == AddCommitments

SpecHomomorphism == InitHomomorphism /\ [][NextHomomorphism]_vars

\* C8: with hiding disabled, commit(p).commitment + commit(q).commitment has
\* the value of commit(p + q).commitment for all p and q within the degree bound.
CommitmentHomomorphism ==
    pc = "add_returned" => call.sum = call.commit_sum

\* C8 witness: two commitments that differ, with different numbers of leading
\* zero coefficients, were added to a nonzero sum
HomomorphismExercised ==
    /\ pc = "add_returned"
    /\ call.p[1] = 0
    /\ call.q[1] # 0
    /\ Len(call.p) > 1
    /\ call.commit_p # call.commit_q
    /\ call.commit_p # 0
    /\ call.sum # 0


----------------------------------------------------------------------------
(* batch_check over collected claims: SpecBatch *)

MaxBatchCoefficient == 1

MaxBatchPoint == 1

\* the value of the Commitment commit returns when its loop drew ints
commit_value(srs, hb, coeffs, ints) ==
    IF hb = NoHiding THEN PlainCommitment(srs, coeffs)
    ELSE Add(PlainCommitment(srs, coeffs), HidingCommitment(srs, ints))

\* the blinding randomness commit can return
CommitRandomness(hb) ==
    IF hb = NoHiding THEN {<<>>}
    ELSE {ints \in [1 .. (hb + 1) -> Elements] : ~SampleAgain(ints)}

\* as BatchStep, without z * proof['w'] folded into the commitment
BatchStepUnfolded(hb, acc, claim, randomizer) ==
    [total_c |-> acc.total_c + claim.commitment * randomizer,
     total_w |-> Add(acc.total_w, Mul(claim.proof.w, randomizer)),
     g_multiplier |-> Add(acc.g_multiplier, Mul(randomizer, claim.value)),
     gamma_g_multiplier |->
         IF hb # NoHiding
         THEN Add(acc.gamma_g_multiplier, Mul(randomizer, claim.proof.random_v))
         ELSE acc.gamma_g_multiplier]

\* as BatchStep, with the proof added to total_w without its randomizer
BatchStepUnweighted(hb, acc, claim, randomizer) ==
    LET c == Add(Mul(claim.point, claim.proof.w), claim.commitment) IN
    [total_c |-> acc.total_c + c * randomizer,
     total_w |-> Add(acc.total_w, claim.proof.w),
     g_multiplier |-> Add(acc.g_multiplier, Mul(randomizer, claim.value)),
     gamma_g_multiplier |->
         IF hb # NoHiding
         THEN Add(acc.gamma_g_multiplier, Mul(randomizer, claim.proof.random_v))
         ELSE acc.gamma_g_multiplier]

\* one iteration of batch_check's loop; total_c is a plain integer
BatchStep(hb, acc, claim, randomizer) ==
    LET c == Add(Mul(claim.point, claim.proof.w), claim.commitment) IN
    [total_c |-> acc.total_c + c * randomizer,
     total_w |-> Add(acc.total_w, Mul(claim.proof.w, randomizer)),
     g_multiplier |-> Add(acc.g_multiplier, Mul(randomizer, claim.value)),
     gamma_g_multiplier |->
         IF hb # NoHiding
         THEN Add(acc.gamma_g_multiplier, Mul(randomizer, claim.proof.random_v))
         ELSE acc.gamma_g_multiplier]

\* the loop over the first n claims; used[i] is the randomizer of iteration i
RECURSIVE BatchLoop(_, _, _, _)
BatchLoop(hb, claims, used, n) ==
    IF n = 0
    THEN [total_c |-> 0, total_w |-> 0, g_multiplier |-> 0, gamma_g_multiplier |-> 0]
    ELSE BatchStep(hb, BatchLoop(hb, claims, used, n - 1), claims[n], used[n])

batch_check(srs, hb, claims, used) ==
    LET acc == BatchLoop(hb, claims, used, Len(claims))
        c1 == Sub(acc.total_c, Mul(srs.powers_of_g[1], acc.g_multiplier))
        total_c == IF hb # NoHiding
                   THEN Sub(c1, Mul(srs.powers_of_gamma_g[1], acc.gamma_g_multiplier))
                   ELSE c1
    IN  pairing(acc.total_w, srs.beta_h) = pairing(total_c, srs.h)

Randomizers == 0 .. MaxRandomizer

\* the randomizer of each iteration: 1, then the value drawn at the end of the
\* iteration before.  The value drawn in the last iteration is never read, so
\* draws holds the k - 1 values drawn before it.
Used(draws) == <<1>> \o draws

\* the draws batch_check reads on k claims
Draws(k) == [1 .. (k - 1) -> Randomizers]


BatchPolynomials ==
    {c \in Polynomials(max_degree + 1) :
        \A i \in 1 .. Len(c) : c[i] <= MaxBatchCoefficient}

Shifted(claims) == {i \in 1 .. Len(claims) : claims[i].shifted}

InitBatch ==
    /\ Construct(HidingBounds \ {0})
    /\ pc = "collecting"
    /\ polynomial = <<>>
    /\ random_ints = <<>>
    /\ commitment = NoValue
    /\ proof = NoProof
    /\ call = NoCall
    /\ batch = <<>>

\* commit to a polynomial, evaluate it at a point and open it there, or one
\* further when the proof is to be the invalid one, and append the claim
AddClaim ==
    /\ pc = "collecting"
    /\ Len(batch) < MaxBatch
    /\ \E coeffs \in BatchPolynomials, point \in 0 .. MaxBatchPoint,
          ints \in CommitRandomness(hiding_bound), shifted \in BOOLEAN :
          LET opened == open(params, hiding_bound, coeffs,
                             IF shifted THEN point + 1 ELSE point, ints) IN
          /\ ~TooManyCoefficients(params, coeffs)
          /\ opened.ok
          /\ shifted => Shifted(batch) = {}
          /\ batch' = Append(batch,
                 [commitment |-> commit_value(params, hiding_bound, coeffs, ints),
                  point |-> point,
                  value |-> evaluate(coeffs, point),
                  proof |-> opened.proof,
                  shifted |-> shifted])
    /\ UNCHANGED <<modulus, max_degree, hiding_bound, params, secret, pc,
                   polynomial, random_ints, commitment, proof, call>>

\* batch_check(commitments, points, values, proofs) with the randomizers it draws
BatchCheck ==
    /\ pc = "collecting"
    /\ Len(batch) >= 1
    /\ \E draws \in Draws(Len(batch)) :
          call' = [op |-> "batch_check", used |-> Used(draws),
                   result |-> batch_check(params, hiding_bound, batch, Used(draws))]
    /\ pc' = "batch_check_returned"
    /\ UNCHANGED <<modulus, max_degree, hiding_bound, params, secret, polynomial,
                   random_ints, commitment, proof, batch>>

NextBatch == AddClaim \/ BatchCheck

SpecBatch == InitBatch /\ [][NextBatch]_vars

\* check of one collected claim on its own
CheckClaim(claim) ==
    check(params, hiding_bound, claim.commitment, claim.point, claim.value, claim.proof)

\* C3: for any k >= 1 valid claims batch_check returns true, whatever
\* randomizers it draws.
BatchCompleteness ==
    (pc = "batch_check_returned" /\ Shifted(batch) = {}) => call.result

\* C3 witness: a batch of two valid hiding claims was accepted with a drawn
\* randomizer that is neither 0 nor 1
BatchAccepted ==
    /\ pc = "batch_check_returned"
    /\ Shifted(batch) = {}
    /\ Len(batch) = 2
    /\ hiding_bound # NoHiding
    /\ NonDegenerate
    /\ batch[1].proof.w # 0
    /\ batch[2].proof.w # 0
    /\ call.used[2] = 2
    /\ call.result

\* the draws of batch_check on the collected batch that make it return true
AcceptingDraws ==
    {draws \in Draws(Len(batch)) :
        batch_check(params, hiding_bound, batch, Used(draws))}

\* C4, on an SRS with nonzero g, h and gamma_g: with one proof of a valid batch
\* of k claims replaced by one opened at the shifted point, batch_check returns
\* true for at most k/R of its draws, R being the size of the randomizer range.
BatchSoundness ==
    (/\ pc = "collecting"
     /\ NonDegenerate
     /\ Shifted(batch) # {}) =>
        Cardinality(AcceptingDraws) * (MaxRandomizer + 1)
            <= Len(batch) * Cardinality(Draws(Len(batch)))

\* C4 as amended: with one proof replaced by one opened at the shifted point,
\* batch_check returns false exactly when check of that claim alone returns
\* false and the randomizer of its iteration (1 for the first claim) is not a
\* multiple of the field's characteristic.
BatchRejectsExactly ==
    (pc = "batch_check_returned" /\ Shifted(batch) # {}) =>
        \A m \in Shifted(batch) :
            ~call.result <=> (~CheckClaim(batch[m]) /\ call.used[m] % modulus # 0)

\* C4 witness: the second proof was replaced and the batch was rejected
BatchRejected ==
    /\ pc = "batch_check_returned"
    /\ Len(batch) = 2
    /\ Shifted(batch) = {2}
    /\ call.used[2] = 2
    /\ ~call.result


-----------------------------------------------------------------------------
(* check and batch_check on one claim: SpecSingle *)

\* the proofs a caller can hand to check: any w, and any random_v when the
\* scheme hides (random_v is None otherwise)
Proofs(hb) ==
    {[w |-> w, random_v |-> v] :
        w \in Elements, v \in (IF hb = NoHiding THEN {NoValue} ELSE Elements)}

\* one claim of arbitrary commitment, point, value and proof, valid or not
InitSingle ==
    /\ Construct(HidingBounds)
    /\ pc = "single_called"
    /\ polynomial = <<>>
    /\ random_ints = <<>>
    /\ commitment = NoValue
    /\ proof = NoProof
    /\ call = NoCall
    /\ \E comm \in Elements, point \in Points, value \in Elements,
          prf \in Proofs(hiding_bound) :
          batch = <<[commitment |-> comm, point |-> point, value |-> value,
                     proof |-> prf]>>

\* check(commitment, point, value, proof) and
\* batch_check([commitment], [point], [value], [proof]) on the same claim; the
\* only randomizer batch_check reads on one claim is the initial 1
CheckSingle ==
    /\ pc = "single_called"
    /\ call' = [op |-> "check_and_batch_check",
                check |-> CheckClaim(batch[1]),
                batch_check |-> batch_check(params, hiding_bound, batch,
                                            Used(<<>>))]
    /\ pc' = "single_returned"
    /\ UNCHANGED <<modulus, max_degree, hiding_bound, params, secret, polynomial,
                   random_ints, commitment, proof, batch>>

NextSingle == CheckSingle

SpecSingle == InitSingle /\ [][NextSingle]_vars

\* C11: on one claim batch_check returns the same boolean as check, for every
\* commitment, point, value and proof, valid or invalid, with and without hiding.
BatchSingleEquivalence ==
    pc = "single_returned" => (call.batch_check <=> call.check)

\* C11 witness: with hiding, on an SRS with nonzero g, h, gamma_g and s, a claim
\* with nonzero point, proof and blinding value was accepted by both
SingleAcceptedByBoth ==
    /\ pc = "single_returned"
    /\ hiding_bound # NoHiding
    /\ NonDegenerate
    /\ secret.s # 0
    /\ batch[1].point % modulus # 0
    /\ batch[1].proof.w # 0
    /\ batch[1].proof.random_v # 0
    /\ call.check
    /\ call.batch_check

\* the same claim shape rejected by both, without hiding
SingleRejectedByBoth ==
    /\ pc = "single_returned"
    /\ hiding_bound = NoHiding
    /\ NonDegenerate
    /\ batch[1].point % modulus # 0
    /\ batch[1].proof.w # 0
    /\ ~call.check
    /\ ~call.batch_check


====
